---------------------------- MODULE Spec2Model ----------------------------
(***************************************************************************)
(* A model of src/crypto.js of fast-jwt: createSignature and               *)
(* verifySignature, the key validators and the base64url transport         *)
(* encoding.  The primitives of the runtime (createHmac, createSign,       *)
(* createVerify, the one-shot sign and verify, timingSafeEqual) and the    *)
(* ecdsa-sig-formatter conversions are modelled by what they do on byte    *)
(* sequences: signatures are ideal (the bytes name the key pair, the       *)
(* message, the digest, the padding and the salt length they were made     *)
(* with) and every conversion is computed on the bytes.                    *)
(*                                                                         *)
(* JavaScript strings are sequences of one-character strings, buffers are  *)
(* sequences of numbers in 0..255.                                         *)
(***************************************************************************)
EXTENDS Integers, Sequences, FiniteSets, TLC

(***************************************************************************)
(* Bounds of the model.                                                    *)
(***************************************************************************)
\* nonces (ECDSA) and salts (RSA-PSS) the native signers draw from: 0..MaxNonce
MaxNonce == 2
\* bytes of an RSA modulus, the length of every RSA signature
RsaModulusBytes == 128
\* a bit is flipped in the first, the middle and the last MaxFlip bytes
MaxFlip == 1
\* at most MaxCut trailing characters are cut off a signature in flight
MaxCut == 2

(***************************************************************************)
(* Strings and bytes.                                                      *)
(***************************************************************************)
Min(a, b) == IF a < b THEN a ELSE b

\* the function f on 1..n as a sequence
AsSeq(f) == SubSeq(f, 1, Len(f))

\* s.slice(from) and s.slice(0, to) of a string
Slice(s, from, to) == SubSeq(s, from + 1, Min(to, Len(s)))

\* the byte x with bit b flipped
FlipBitOf(x, b) == IF (x \div (2 ^ b)) % 2 = 1 THEN x - 2 ^ b ELSE x + 2 ^ b

(***************************************************************************)
(* Base64, as Buffer.toString('base64') / digest('base64') write it and    *)
(* as Buffer.from(s, 'base64') reads it.                                   *)
(***************************************************************************)
Base64Alphabet ==
    << "A","B","C","D","E","F","G","H","I","J","K","L","M",
       "N","O","P","Q","R","S","T","U","V","W","X","Y","Z",
       "a","b","c","d","e","f","g","h","i","j","k","l","m",
       "n","o","p","q","r","s","t","u","v","w","x","y","z",
       "0","1","2","3","4","5","6","7","8","9","+","/" >>

\* the sextet (0..63) a character stands for when a buffer is read from
\* base64: the decoder of the runtime reads both alphabets
Unbase64 ==
    [c \in {Base64Alphabet[i] : i \in 1..64} \cup {"-", "_"} |->
        IF c = "-" THEN 62
        ELSE IF c = "_" THEN 63
        ELSE (CHOOSE i \in 1..64 : Base64Alphabet[i] = c) - 1]

\* byte i (from 0) of b, 0 past the end
ByteAt(b, i) == IF i < Len(b) THEN b[i + 1] ELSE 0

\* character j (from 0) of the padded base64 encoding of b
Base64CharAt(b, j) ==
    LET q  == j \div 4
        k  == j % 4
        b0 == ByteAt(b, 3 * q)
        b1 == ByteAt(b, 3 * q + 1)
        b2 == ByteAt(b, 3 * q + 2)
    IN  IF k = 0 THEN Base64Alphabet[(b0 \div 4) + 1]
        ELSE IF k = 1 THEN Base64Alphabet[((b0 % 4) * 16 + (b1 \div 16)) + 1]
        ELSE IF k = 2 THEN
            IF 3 * q + 1 >= Len(b) THEN "="
            ELSE Base64Alphabet[((b1 % 16) * 4 + (b2 \div 64)) + 1]
        ELSE
            IF 3 * q + 2 >= Len(b) THEN "="
            ELSE Base64Alphabet[(b2 % 64) + 1]

\* buf.toString('base64'): standard alphabet, padded with '='
ToBase64(b) == AsSeq([j \in 1..(4 * ((Len(b) + 2) \div 3)) |-> Base64CharAt(b, j - 1)])

\* the sextets of the characters of s before the first '=', the characters
\* the decoder does not know left out
Sextets(s) ==
    LET pads  == {i \in 1..Len(s) : s[i] = "="}
        stop  == IF pads = {} THEN Len(s) + 1
                 ELSE CHOOSE i \in pads : \A j \in pads : i <= j
        known == SelectSeq(SubSeq(s, 1, stop - 1), LAMBDA c : c \in DOMAIN Unbase64)
    IN  AsSeq([i \in 1..Len(known) |-> Unbase64[known[i]]])

\* Buffer.from(s, 'base64'): every 4 characters give 3 bytes, 3 trailing
\* characters give 2 bytes, 2 give 1 and a single one gives none
FromBase64(s) ==
    LET x == Sextets(s)
    IN  AsSeq([i \in 1..((Len(x) * 3) \div 4) |->
            LET bit == 8 * (i - 1)
                a   == (bit \div 6) + 1
                o   == bit % 6
            IN  IF o = 0 THEN x[a] * 4 + (x[a + 1] \div 16)
                ELSE IF o = 2 THEN (x[a] % 16) * 16 + (x[a + 1] \div 4)
                ELSE (x[a] % 4) * 64 + x[a + 1]])

\* const base64UrlMatcher = /[=+/]/g
base64UrlMatcher == {"=", "+", "/"}

\* const encoderMap = { '=': '', '+': '-', '/': '_' }
encoderMap == [c \in {"=", "+", "/"} |->
                 IF c = "=" THEN << >> ELSE IF c = "+" THEN << "-" >> ELSE << "_" >>]

\* faulty variant: '+' is left as it is
base64UrlReplacerKeepsPlus(c) == IF c = "+" THEN << "+" >> ELSE encoderMap[c]

base64UrlReplacer(c) == encoderMap[c]

\* s.replace(base64UrlMatcher, base64UrlReplacer): every match is replaced by
\* what the replacer returns for it (characters lo..hi of s)
RECURSIVE ReplaceRange(_, _, _)
ReplaceRange(s, lo, hi) ==
    IF lo > hi THEN << >>
    ELSE IF lo = hi
    THEN (IF s[lo] \in base64UrlMatcher THEN base64UrlReplacer(s[lo]) ELSE << s[lo] >>)
    ELSE ReplaceRange(s, lo, (lo + hi) \div 2) \o ReplaceRange(s, ((lo + hi) \div 2) + 1, hi)

Replace(s) == ReplaceRange(s, 1, Len(s))

(***************************************************************************)
(* JavaScript values: keys, messages and errors.                           *)
(***************************************************************************)
\* A key as the caller passes it.  t is what the value is ("string",
\* "buffer", "object", "null", "number", "undefined"), v what a string or a
\* buffer holds; of an object, kt and kv are its key property and pt is its
\* passphrase property ("undefined" when the object has none).
Str(m) == [t |-> "string", v |-> m, kt |-> "-", kv |-> "-", pt |-> "-"]

Buf(m) == [t |-> "buffer", v |-> m, kt |-> "-", kv |-> "-", pt |-> "-"]

Obj(kt, kv, pt) == [t |-> "object", v |-> "-", kt |-> kt, kv |-> kv, pt |-> pt]

Null == [t |-> "null", v |-> "-", kt |-> "-", kv |-> "-", pt |-> "-"]

Num == [t |-> "number", v |-> "-", kt |-> "-", kv |-> "-", pt |-> "-"]

Undefined == [t |-> "undefined", v |-> "-", kt |-> "-", kv |-> "-", pt |-> "-"]

\* typeof key
TypeOf(key) ==
    IF key.t \in {"buffer", "object", "null"} THEN "object" ELSE key.t

\* key instanceof Buffer
IsBuffer(key) == key.t = "buffer"

\* What a string or a buffer can hold: a secret, a PEM text of a key of one
\* of the key pairs, or a text that is no key.  kind, the scheme of the key
\* pair, the bytes of a coordinate of its curve, and the number the ideal
\* signatures name the pair (or the secret) by.
Material ==
    [m \in {"secret-a", "secret-b", "garbage", "rsa.priv", "rsa.pub",
            "p256.priv", "p256.pub", "p384.priv", "p384.pub",
            "p521.priv", "p521.pub", "ed.priv", "ed.pub"} |->
       CASE m = "secret-a"  -> [kind |-> "secret",  type |-> "-",   cb |-> 0,  id |-> 11]
         [] m = "secret-b"  -> [kind |-> "secret",  type |-> "-",   cb |-> 0,  id |-> 12]
         [] m = "garbage"   -> [kind |-> "secret",  type |-> "-",   cb |-> 0,  id |-> 13]
         [] m = "rsa.priv"  -> [kind |-> "private", type |-> "rsa", cb |-> 0,  id |-> 21]
         [] m = "rsa.pub"   -> [kind |-> "public",  type |-> "rsa", cb |-> 0,  id |-> 21]
         [] m = "p256.priv" -> [kind |-> "private", type |-> "ec",  cb |-> 32, id |-> 31]
         [] m = "p256.pub"  -> [kind |-> "public",  type |-> "ec",  cb |-> 32, id |-> 31]
         [] m = "p384.priv" -> [kind |-> "private", type |-> "ec",  cb |-> 48, id |-> 32]
         [] m = "p384.pub"  -> [kind |-> "public",  type |-> "ec",  cb |-> 48, id |-> 32]
         [] m = "p521.priv" -> [kind |-> "private", type |-> "ec",  cb |-> 66, id |-> 33]
         [] m = "p521.pub"  -> [kind |-> "public",  type |-> "ec",  cb |-> 66, id |-> 33]
         [] m = "ed.priv"   -> [kind |-> "private", type |-> "ed",  cb |-> 0,  id |-> 41]
         [] m = "ed.pub"    -> [kind |-> "public",  type |-> "ed",  cb |-> 0,  id |-> 41]]

\* A message: a string, or a value that is no string (a number).
Msg(v) == [t |-> "string", v |-> v]

NotAString == [t |-> "number", v |-> "-"]

MsgId == [v \in {"m1", "m2"} |-> IF v = "m1" THEN 1 ELSE 2]

\* An error is the chain of its causes, the error itself first: each has the
\* code of TokenError.codes (or the name of a runtime error) and a message.
Err(code, message) == << [code |-> code, message |-> message] >>

\* new TokenError(code, message, { originalError: e })
Wrap(code, message, e) == Err(code, message) \o e

(***************************************************************************)
(* The key validators.                                                     *)
(***************************************************************************)
Pass == [ok |-> TRUE, err |-> << >>]

Fail(e) == [ok |-> FALSE, err |-> e]

\* function validateSecretOrPublicKey(algorithm, key, message)
validateSecretOrPublicKey(algorithm, key, message) ==
    IF IsBuffer(key) \/ TypeOf(key) = "string"
    THEN Pass
    ELSE Fail(Err("invalidKey", message))

\* faulty variant: the passphrase of a key object is not checked
validatePrivateKeyNoPassphrase(algorithm, key) ==
    LET keyType == TypeOf(key)
    IN  IF IsBuffer(key) \/ keyType = "string"
        THEN [ok |-> TRUE, err |-> << >>,
              value |-> [key |-> [t |-> key.t, v |-> key.v], passphrase |-> "undefined"]]
        ELSE IF keyType # "object"
        THEN [ok |-> FALSE, value |-> << >>,
              err |-> Err("invalidKey",
                  "The key for algorithm ${algorithm} must be a string, a object or a buffer containing the private key.")]
        ELSE IF key.t = "null"
        THEN [ok |-> FALSE, value |-> << >>,
              err |-> Err("TypeError", "Cannot read property 'key' of null")]
        ELSE IF key.kt # "string" /\ key.kt # "buffer"
        THEN [ok |-> FALSE, value |-> << >>,
              err |-> Err("invalidKey",
                  "The key object for algorithm ${algorithm} must have the key property as string or buffer containing the private key.")]
        ELSE [ok |-> TRUE, err |-> << >>,
              value |-> [key |-> [t |-> key.kt, v |-> key.kv], passphrase |-> key.pt]]

\* function validatePrivateKey(algorithm, key): what it returns is the
\* object the options are spread from, { key } or the key object itself
validatePrivateKey(algorithm, key) ==
    LET keyType == TypeOf(key)
    IN  IF IsBuffer(key) \/ keyType = "string"
        THEN [ok |-> TRUE, err |-> << >>,
              value |-> [key |-> [t |-> key.t, v |-> key.v], passphrase |-> "undefined"]]
        ELSE IF keyType # "object"
        THEN [ok |-> FALSE, value |-> << >>,
              err |-> Err("invalidKey",
                  "The key for algorithm ${algorithm} must be a string, a object or a buffer containing the private key.")]
        ELSE IF key.t = "null"
        \* key.key of null: the runtime throws
        THEN [ok |-> FALSE, value |-> << >>,
              err |-> Err("TypeError", "Cannot read property 'key' of null")]
        ELSE IF key.kt # "string" /\ key.kt # "buffer"
        THEN [ok |-> FALSE, value |-> << >>,
              err |-> Err("invalidKey",
                  "The key object for algorithm ${algorithm} must have the key property as string or buffer containing the private key.")]
        ELSE IF key.pt # "undefined" /\ key.pt # "string" /\ key.pt # "buffer"
        THEN [ok |-> FALSE, value |-> << >>,
              err |-> Err("invalidKey",
                  "The key object for algorithm ${algorithm} must have the passphrase property as string or buffer containing the private key.")]
        ELSE [ok |-> TRUE, err |-> << >>,
              value |-> [key |-> [t |-> key.kt, v |-> key.kv], passphrase |-> key.pt]]

(***************************************************************************)
(* The primitives of the runtime, as ideal functions on bytes.             *)
(***************************************************************************)
\* constants: { RSA_PKCS1_PSS_PADDING, RSA_PSS_SALTLEN_DIGEST, ... } of crypto
RSA_PKCS1_PSS_PADDING == 6

RSA_PSS_SALTLEN_DIGEST == -1

RSA_PKCS1_PADDING == 1

RSA_PSS_SALTLEN_MAX_SIGN == -2

RSA_PSS_SALTLEN_AUTO == -2

SHA == << "S", "H", "A" >>

\* the bytes of the digest named alg, 0 when the runtime knows no such digest
DigestBytes(alg) ==
    IF alg = SHA \o << "2", "5", "6" >> THEN 32
    ELSE IF alg = SHA \o << "3", "8", "4" >> THEN 48
    ELSE IF alg = SHA \o << "5", "1", "2" >> THEN 64
    ELSE 0

\* n bytes that start with head and go on with a fixed pattern
Fill(n, head) ==
    AsSeq([i \in 1..n |-> IF i <= Len(head) THEN head[i] ELSE (i * 89 + 7) % 256])

\* the material a key (a string, a buffer or a key object) holds
MaterialOf(key) ==
    IF key.t \in {"string", "buffer"} THEN Material[key.v]
    ELSE Material[key.kv]

\* createHmac(alg, key).update(input).digest(): the MAC is a function of the
\* digest, the bytes of the key and the message
createHmac(alg, key, input) ==
    IF DigestBytes(alg) = 0
    THEN [ok |-> FALSE, value |-> << >>, err |-> Err("Error", "Invalid digest")]
    ELSE IF input.t # "string"
    THEN [ok |-> FALSE, value |-> << >>,
          err |-> Err("TypeError", "The data argument must be of type string or Buffer")]
    ELSE [ok |-> TRUE, err |-> << >>,
          value |-> Fill(DigestBytes(alg),
                         << 251, 255, Material[key.v].id, MsgId[input.v], DigestBytes(alg) >>)]

\* timingSafeEqual(a, b): throws when the lengths differ
timingSafeEqual(a, b) ==
    IF Len(a) # Len(b)
    THEN [ok |-> FALSE, value |-> FALSE,
          err |-> Err("RangeError", "Input buffers must have the same byte length")]
    ELSE [ok |-> TRUE, value |-> (a = b), err |-> << >>]

\* An RSA signature: the key pair, the message, the digest, the padding, the
\* length of the salt and the salt (both 0 under PKCS#1 v1.5).
RsaBytes(id, msg, dg, padding, sLen, salt) ==
    Fill(RsaModulusBytes, << 82, id, msg, dg, padding, sLen, salt >>)

\* the salt length a signer uses for options.saltLength
SignSaltLength(saltLength, dg) ==
    IF saltLength = RSA_PSS_SALTLEN_DIGEST THEN dg
    ELSE IF saltLength = RSA_PSS_SALTLEN_MAX_SIGN THEN RsaModulusBytes - dg - 2
    ELSE saltLength

\* whether a verifier given options.saltLength accepts a salt of sLen bytes
VerifySaltLengthOk(saltLength, dg, sLen) ==
    IF saltLength = RSA_PSS_SALTLEN_DIGEST THEN sLen = dg
    ELSE IF saltLength = RSA_PSS_SALTLEN_AUTO THEN TRUE
    ELSE sLen = saltLength

RsaVerify(m, msg, dg, padding, saltLength, sig) ==
    /\ Len(sig) = RsaModulusBytes
    /\ sig = RsaBytes(m.id, msg, dg, padding, sig[6], sig[7])
    /\ IF padding = RSA_PKCS1_PSS_PADDING
       THEN VerifySaltLengthOk(saltLength, dg, sig[6])
       ELSE sig[6] = 0 /\ sig[7] = 0

\* ECDSA: r and s, each cb bytes.  The nonce decides how r and s begin (a
\* byte with the high bit set, one or two zero bytes), s names the key
\* pair, the message and the digest, and both end with the nonce.
EcHead(cb, p) ==
    IF p % 4 = 0 THEN << 1, 200, 3 >>
    ELSE IF p % 4 = 1 THEN << 0, 128, 5 >>
    ELSE IF p % 4 = 2 THEN << 0, 0, 127 >>
    ELSE << (IF cb = 66 THEN 1 ELSE 255), 0, 9 >>

EcR(cb, n) == SubSeq(Fill(cb, EcHead(cb, n)), 1, cb - 1) \o << n >>

EcS(cb, id, msg, dg, n) ==
    SubSeq(Fill(cb, EcHead(cb, n + 1) \o << id, msg, dg >>), 1, cb - 1) \o << n >>

\* x without its leading zero bytes (one byte is kept)
RECURSIVE StripZeros(_)
StripZeros(x) == IF Len(x) > 1 /\ x[1] = 0 THEN StripZeros(Tail(x)) ELSE x

\* x with zero bytes before it, n bytes in all
LeftPad(x, n) == AsSeq([i \in 1..(n - Len(x)) |-> 0]) \o x

\* ASN.1 DER, as the native signer writes it
DerInt(x) ==
    LET y == StripZeros(x)
        z == IF y[1] >= 128 THEN << 0 >> \o y ELSE y
    IN  << 2, Len(z) >> \o z

DerLen(n) == IF n < 128 THEN << n >> ELSE << 129, n >>

DerEncode(r, s) ==
    LET c == DerInt(r) \o DerInt(s)
    IN  << 48 >> \o DerLen(Len(c)) \o c

\* ... and as the native verifier reads it: a sequence of two integers and
\* nothing else
DerDecode(d) ==
    LET long == Len(d) >= 3 /\ d[2] = 129
        hdr  == IF long THEN 3 ELSE 2
        rLen == d[hdr + 2]
        rAt  == hdr + 3
        sLen == d[rAt + rLen + 1]
        sAt  == rAt + rLen + 2
    IN  IF /\ Len(d) >= hdr + 6
           /\ d[1] = 48
           /\ d[hdr] = Len(d) - hdr
           /\ d[hdr + 1] = 2
           /\ rLen >= 1
           /\ rAt + rLen + 2 <= Len(d)
           /\ d[rAt + rLen] = 2
           /\ sLen >= 1
           /\ sAt + sLen - 1 = Len(d)
        THEN [ok |-> TRUE, r |-> SubSeq(d, rAt, rAt + rLen - 1),
                           s |-> SubSeq(d, sAt, sAt + sLen - 1)]
        ELSE [ok |-> FALSE, r |-> << >>, s |-> << >>]

\* the native verifier takes a signature that is the DER encoding of an
\* (r, s) the signer can make for the key pair, the message and the digest
EcVerify(m, msg, dg, der) ==
    LET d == DerDecode(der)
        r == StripZeros(d.r)
        s == StripZeros(d.s)
    IN  /\ d.ok
        /\ DerEncode(d.r, d.s) = der
        /\ Len(r) <= m.cb
        /\ Len(s) <= m.cb
        /\ LeftPad(r, m.cb) = EcR(m.cb, LeftPad(r, m.cb)[m.cb])
        /\ LeftPad(s, m.cb) = EcS(m.cb, m.id, msg, dg, LeftPad(r, m.cb)[m.cb])

\* an Ed25519 signature: no digest, no nonce
EdBytes(id, msg) == Fill(64, << 237, id, msg >>)

\* createSign('RSA-' + alg).update(input).sign(options, 'base64'): the
\* scheme is that of the private key in options.key
NativeSign(alg, options, input, nonce) ==
    LET m  == Material[options.key.v]
        dg == DigestBytes(alg)
    IN  IF dg = 0
        THEN [ok |-> FALSE, value |-> << >>, err |-> Err("Error", "Invalid digest")]
        ELSE IF input.t # "string"
        THEN [ok |-> FALSE, value |-> << >>,
              err |-> Err("TypeError", "The data argument must be of type string or Buffer")]
        ELSE IF m.kind # "private" \/ m.type = "ed"
        THEN [ok |-> FALSE, value |-> << >>, err |-> Err("Error", "PEM routines or unsupported key")]
        ELSE IF m.type = "rsa"
        THEN [ok |-> TRUE, err |-> << >>,
              value |-> ToBase64(
                  IF options.padding = RSA_PKCS1_PSS_PADDING
                  THEN RsaBytes(m.id, MsgId[input.v], dg, options.padding,
                                SignSaltLength(options.saltLength, dg), nonce)
                  ELSE RsaBytes(m.id, MsgId[input.v], dg, options.padding, 0, 0))]
        ELSE [ok |-> TRUE, err |-> << >>,
              value |-> ToBase64(DerEncode(EcR(m.cb, nonce),
                                           EcS(m.cb, m.id, MsgId[input.v], dg, nonce)))]

\* createVerify('RSA-' + alg).update(input).verify(options, signature)
NativeVerify(alg, options, input, signature) ==
    LET m  == MaterialOf(options.key)
        dg == DigestBytes(alg)
    IN  IF dg = 0
        THEN [ok |-> FALSE, value |-> FALSE, err |-> Err("Error", "Invalid digest")]
        ELSE IF input.t # "string"
        THEN [ok |-> FALSE, value |-> FALSE,
              err |-> Err("TypeError", "The data argument must be of type string or Buffer")]
        ELSE IF options.key.t \notin {"string", "buffer"}
        THEN [ok |-> FALSE, value |-> FALSE, err |-> Err("TypeError", "Invalid key argument")]
        ELSE IF m.kind \notin {"private", "public"} \/ m.type = "ed"
        THEN [ok |-> FALSE, value |-> FALSE, err |-> Err("Error", "PEM routines or unsupported key")]
        ELSE IF m.type = "rsa"
        THEN [ok |-> TRUE, err |-> << >>,
              value |-> RsaVerify(m, MsgId[input.v], dg, options.padding,
                                  options.saltLength, signature)]
        ELSE [ok |-> TRUE, err |-> << >>,
              value |-> EcVerify(m, MsgId[input.v], dg, signature)]

\* sign(undefined, Buffer.from(input, 'utf8'), key) of crypto
directSign(key, input) ==
    LET m == MaterialOf(key)
    IN  IF m.kind # "private" \/ m.type # "ed"
        THEN [ok |-> FALSE, value |-> << >>, err |-> Err("Error", "PEM routines or unsupported key")]
        ELSE [ok |-> TRUE, err |-> << >>, value |-> EdBytes(m.id, MsgId[input.v])]

\* verify(undefined, Buffer.from(input, 'utf8'), key, signature) of crypto
directVerify(key, input, signature) ==
    IF key.t \in {"null", "number", "undefined"}
       \/ (key.t = "object" /\ key.kt \notin {"string", "buffer"})
    THEN [ok |-> FALSE, value |-> FALSE, err |-> Err("TypeError", "Invalid key argument")]
    ELSE IF MaterialOf(key).kind \notin {"private", "public"} \/ MaterialOf(key).type # "ed"
    THEN [ok |-> FALSE, value |-> FALSE, err |-> Err("Error", "PEM routines or unsupported key")]
    ELSE [ok |-> TRUE, err |-> << >>,
          value |-> (signature = EdBytes(MaterialOf(key).id, MsgId[input.v]))]

(***************************************************************************)
(* ecdsa-sig-formatter: { joseToDer, derToJose }.                          *)
(***************************************************************************)
MAX_OCTET == 128

ENCODED_TAG_SEQ == 48

ENCODED_TAG_INT == 2

\* getParamBytesForAlg: 0 stands for 'Unknown algorithm'
ParamBytes(algorithm) ==
    IF algorithm = << "E", "S", "2", "5", "6" >> THEN 32
    ELSE IF algorithm = << "E", "S", "3", "8", "4" >> THEN 48
    ELSE IF algorithm = << "E", "S", "5", "1", "2" >> THEN 66
    ELSE 0

\* one integer of the DER signature as paramBytes bytes: zero bytes before a
\* shorter one, the sign byte of a longer one dropped
JoseInt(x, paramBytes) ==
    IF Len(x) <= paramBytes THEN LeftPad(x, paramBytes)
    ELSE SubSeq(x, Len(x) - paramBytes + 1, Len(x))

\* derToJose(signature, alg): signature is the base64 text of a DER
\* signature, the result is the base64url text of r || s
derToJose(signature, algorithm) ==
    LET sig        == FromBase64(signature)
        paramBytes == ParamBytes(algorithm)
        long       == ByteAt(sig, 1) = MAX_OCTET + 1
        hdr        == IF long THEN 3 ELSE 2
        seqLength  == ByteAt(sig, hdr - 1)
        rLength    == ByteAt(sig, hdr + 1)
        rOffset    == hdr + 2
        sLength    == ByteAt(sig, rOffset + rLength + 1)
        sOffset    == rOffset + rLength + 2
        bad(text)  == [ok |-> FALSE, value |-> << >>, err |-> Err("Error", text)]
    IN  IF paramBytes = 0 THEN bad("Unknown algorithm")
        ELSE IF Len(sig) = 0 \/ sig[1] # ENCODED_TAG_SEQ THEN bad("Could not find expected seq")
        ELSE IF Len(sig) - hdr < seqLength THEN bad("seq specified length, only less remaining")
        ELSE IF ByteAt(sig, hdr) # ENCODED_TAG_INT \/ Len(sig) <= hdr
        THEN bad("Could not find expected int for r")
        ELSE IF Len(sig) - rOffset - 2 < rLength THEN bad("r specified length, only less available")
        ELSE IF paramBytes + 1 < rLength THEN bad("r specified length, max of paramBytes + 1 is acceptable")
        ELSE IF ByteAt(sig, rOffset + rLength) # ENCODED_TAG_INT
        THEN bad("Could not find expected int for s")
        ELSE IF Len(sig) - sOffset # sLength THEN bad("s specified length, expected the rest")
        ELSE IF paramBytes + 1 < sLength THEN bad("s specified length, max of paramBytes + 1 is acceptable")
        ELSE [ok |-> TRUE, err |-> << >>,
              value |-> Replace(ToBase64(
                  JoseInt(SubSeq(sig, rOffset + 1, rOffset + rLength), paramBytes)
                  \o JoseInt(SubSeq(sig, sOffset + 1, sOffset + sLength), paramBytes)))]

\* countPadding(buf, start, stop): the zero bytes the integer starts with,
\* one less when the byte after them has its high bit set
RECURSIVE ZerosFrom(_, _, _)
ZerosFrom(buf, start, stop) ==
    IF start < stop /\ ByteAt(buf, start) = 0 THEN 1 + ZerosFrom(buf, start + 1, stop) ELSE 0

countPadding(buf, start, stop) ==
    LET padding == ZerosFrom(buf, start, stop)
    IN  IF ByteAt(buf, start + padding) >= MAX_OCTET THEN padding - 1 ELSE padding

\* joseToDer(signature, alg): signature is the buffer r || s
joseToDer(signature, algorithm) ==
    LET paramBytes == ParamBytes(algorithm)
        rPadding   == countPadding(signature, 0, paramBytes)
        sPadding   == countPadding(signature, paramBytes, Len(signature))
        rLength    == paramBytes - rPadding
        sLength    == paramBytes - sPadding
        rsBytes    == 1 + 1 + rLength + 1 + 1 + sLength
        r          == IF rPadding < 0 THEN << 0 >> \o SubSeq(signature, 1, paramBytes)
                      ELSE SubSeq(signature, rPadding + 1, paramBytes)
        s          == IF sPadding < 0
                      THEN << 0 >> \o SubSeq(signature, paramBytes + 1, 2 * paramBytes)
                      ELSE SubSeq(signature, paramBytes + sPadding + 1, 2 * paramBytes)
    IN  IF paramBytes = 0
        THEN [ok |-> FALSE, value |-> << >>, err |-> Err("Error", "Unknown algorithm")]
        ELSE IF Len(signature) # paramBytes * 2
        THEN [ok |-> FALSE, value |-> << >>,
              err |-> Err("TypeError", "signatures must be paramBytes * 2 bytes")]
        ELSE [ok |-> TRUE, err |-> << >>,
              value |-> << ENCODED_TAG_SEQ >>
                        \o (IF rsBytes < MAX_OCTET THEN << rsBytes >>
                            ELSE << MAX_OCTET + 1, rsBytes % 256 >>)
                        \o << ENCODED_TAG_INT, rLength >> \o r
                        \o << ENCODED_TAG_INT, sLength >> \o s]

(***************************************************************************)
(* The state: the runtime, the signature in flight and the latest call.    *)
(***************************************************************************)
VARIABLES
    oneShot,    \* whether crypto has the one-shot sign and verify (Node >= 12)
    wire,       \* the signature in flight, who made it and for what
    last        \* the latest call on the signature in flight and its result

vars == << oneShot, wire, last >>

\* typeof directSign, typeof directVerify
typeofDirectSign == IF oneShot THEN "function" ELSE "undefined"

typeofDirectVerify == IF oneShot THEN "function" ELSE "undefined"

\* What a call does: it returns a value or throws an error; calls is the
\* sequence of the validators, primitives and converters it called, native
\* the signature bytes the primitive produced or was given.
Returned(value, calls, native) ==
    [kind |-> "return", value |-> value, err |-> << >>, calls |-> calls, native |-> native]

Thrown(err, calls) ==
    [kind |-> "throw", value |-> << >>, err |-> err, calls |-> calls, native |-> << >>]

(***************************************************************************)
(* createSignature.                                                        *)
(***************************************************************************)
\* type === 'HS'
SignHS(algorithm, alg, key, input) ==
    LET v   == validateSecretOrPublicKey(algorithm, key,
                   "The secret for algorithm ${algorithm} must be a string or a buffer.")
        mac == createHmac(alg, key, input)
    IN  IF ~v.ok THEN Thrown(v.err, << "validateSecretOrPublicKey" >>)
        ELSE IF ~mac.ok THEN Thrown(mac.err, << "validateSecretOrPublicKey", "createHmac" >>)
        ELSE Returned(Replace(ToBase64(mac.value)),
                      << "validateSecretOrPublicKey", "createHmac" >>, mac.value)

\* faulty variant: the key is validated before the runtime is asked
SignEdValidatesFirst(algorithm, key, input) ==
    LET v == validatePrivateKey(algorithm, key)
        d == directSign(key, input)
    IN  IF ~v.ok THEN Thrown(v.err, << "validatePrivateKey" >>)
        ELSE IF typeofDirectSign # "function"
        THEN Thrown(Err("signError", "EdDSA algorithms are not supported by your Node.js version."),
                    << "validatePrivateKey" >>)
        ELSE IF input.t # "string"
        THEN Thrown(Err("TypeError", "The first argument must be of type string"),
                    << "validatePrivateKey" >>)
        ELSE IF ~d.ok THEN Thrown(d.err, << "validatePrivateKey", "directSign" >>)
        ELSE Returned(Replace(ToBase64(d.value)),
                      << "validatePrivateKey", "directSign" >>, d.value)

\* type === 'Ed'
SignEd(algorithm, key, input) ==
    LET v == validatePrivateKey(algorithm, key)
        d == directSign(key, input)
    IN  IF typeofDirectSign = "function"
        THEN IF ~v.ok THEN Thrown(v.err, << "validatePrivateKey" >>)
             ELSE IF input.t # "string"
             \* Buffer.from(input, 'utf8') throws
             THEN Thrown(Err("TypeError", "The first argument must be of type string"),
                         << "validatePrivateKey" >>)
             ELSE IF ~d.ok THEN Thrown(d.err, << "validatePrivateKey", "directSign" >>)
             ELSE Returned(Replace(ToBase64(d.value)),
                           << "validatePrivateKey", "directSign" >>, d.value)
        ELSE Thrown(Err("signError", "EdDSA algorithms are not supported by your Node.js version."),
                    << >>)

\* faulty variant: the PS branch of createSignature is missing
SignPaddingPkcs1Only(type) == RSA_PKCS1_PADDING

\* the padding and the salt length of the options of createSignature
SignPadding(type) ==
    IF type = << "P", "S" >> THEN RSA_PKCS1_PSS_PADDING ELSE RSA_PKCS1_PADDING

SignSaltLengthOption(type) ==
    IF type = << "P", "S" >> THEN RSA_PSS_SALTLEN_DIGEST ELSE RSA_PSS_SALTLEN_MAX_SIGN

\* faulty variant: the ES branch of createSignature is missing
SignConvertsNever(type) == FALSE

\* if (type === 'ES')
SignConverts(type) == type = << "E", "S" >>

\* the RS, PS and ES algorithms
SignNative(algorithm, type, alg, key, input, nonce) ==
    LET v       == validatePrivateKey(algorithm, key)
        options == [key |-> v.value.key, passphrase |-> v.value.passphrase,
                    padding |-> SignPadding(type),
                    saltLength |-> SignSaltLengthOption(type)]
        signed  == NativeSign(alg, options, input, nonce)
        jose    == derToJose(signed.value, algorithm)
    IN  IF ~v.ok THEN Thrown(v.err, << "validatePrivateKey" >>)
        ELSE IF ~signed.ok THEN Thrown(signed.err, << "validatePrivateKey", "createSign" >>)
        ELSE IF SignConverts(type)
        THEN IF ~jose.ok
             THEN Thrown(jose.err, << "validatePrivateKey", "createSign", "derToJose" >>)
             \* the base64url text derToJose returns: toString('base64') of a
             \* string is the string
             ELSE Returned(Replace(jose.value),
                           << "validatePrivateKey", "createSign", "derToJose" >>,
                           FromBase64(signed.value))
        ELSE Returned(Replace(signed.value), << "validatePrivateKey", "createSign" >>,
                      FromBase64(signed.value))

\* the body of the try of createSignature
createSignatureTry(algorithm, key, input, nonce) ==
    LET type == Slice(algorithm, 0, 2)
        alg  == SHA \o Slice(algorithm, 2, Len(algorithm))
    IN  IF type = << "H", "S" >> THEN SignHS(algorithm, alg, key, input)
        ELSE IF type = << "E", "d" >> THEN SignEd(algorithm, key, input)
        ELSE SignNative(algorithm, type, alg, key, input, nonce)

\* faulty variant: createSignature has no catch
SignCatchRethrows(r) == r

\* catch (e) { throw new TokenError(TokenError.codes.signError, ...) }
SignCatch(r) ==
    IF r.kind = "throw"
    THEN Thrown(Wrap("signError", "Cannot create the signature.", r.err), r.calls)
    ELSE r

\* function createSignature(algorithm, key, input); nonce is what the native
\* signer draws
createSignature(algorithm, key, input, nonce) ==
    SignCatch(createSignatureTry(algorithm, key, input, nonce))

(***************************************************************************)
(* verifySignature.                                                        *)
(***************************************************************************)
\* faulty variant: the comparison is not in a try of its own
HmacCompareThrows(alg, key, input, signature) ==
    LET mac == createHmac(alg, key, input)
        eq  == timingSafeEqual(mac.value, signature)
    IN  IF ~mac.ok THEN Thrown(mac.err, << "createHmac" >>)
        ELSE IF ~eq.ok THEN Thrown(eq.err, << "createHmac", "timingSafeEqual" >>)
        ELSE Returned(eq.value, << "createHmac", "timingSafeEqual" >>, signature)

\* try { return timingSafeEqual(createHmac(...).digest(), signature) }
\* catch (e) { return false }
HmacCompare(alg, key, input, signature) ==
    LET mac == createHmac(alg, key, input)
        eq  == timingSafeEqual(mac.value, signature)
    IN  IF ~mac.ok THEN Returned(FALSE, << "createHmac" >>, signature)
        ELSE IF ~eq.ok THEN Returned(FALSE, << "createHmac", "timingSafeEqual" >>, signature)
        ELSE Returned(eq.value, << "createHmac", "timingSafeEqual" >>, signature)

\* type === 'HS'
VerifyHS(algorithm, alg, key, input, signature) ==
    LET v == validateSecretOrPublicKey(algorithm, key,
                 "The secret for algorithm ${algorithm} must be a string or a buffer.")
        r == HmacCompare(alg, key, input, signature)
    IN  IF ~v.ok THEN Thrown(v.err, << "validateSecretOrPublicKey" >>)
        ELSE [r EXCEPT !.calls = << "validateSecretOrPublicKey" >> \o r.calls]

\* type === 'Ed'
VerifyEd(algorithm, key, input, signature) ==
    LET d == directVerify(key, input, signature)
    IN  IF typeofDirectVerify = "function"
        THEN IF input.t # "string"
             \* Buffer.from(input, 'utf8') throws
             THEN Thrown(Err("TypeError", "The first argument must be of type string"), << >>)
             ELSE IF ~d.ok THEN Thrown(d.err, << "directVerify" >>)
             ELSE Returned(d.value, << "directVerify" >>, signature)
        ELSE Thrown(Err("signError", "EdDSA algorithms are not supported by your Node.js version."),
                    << >>)

\* the padding and the salt length of the options of verifySignature
VerifyPadding(type) ==
    IF type = << "P", "S" >> THEN RSA_PKCS1_PSS_PADDING ELSE RSA_PKCS1_PADDING

\* faulty variant: the salt length of the PS branch is not set
VerifySaltLengthAuto(type) == RSA_PSS_SALTLEN_AUTO

VerifySaltLengthOption(type) ==
    IF type = << "P", "S" >> THEN RSA_PSS_SALTLEN_DIGEST ELSE RSA_PSS_SALTLEN_AUTO

\* else if (type === 'ES')
VerifyConverts(type) == type = << "E", "S" >>

\* the RS, PS and ES algorithms
VerifyNative(algorithm, type, alg, key, input, signature) ==
    LET options  == [key |-> key, padding |-> VerifyPadding(type),
                     saltLength |-> VerifySaltLengthOption(type)]
        v        == validateSecretOrPublicKey(algorithm, key,
                        "The key for algorithm ${algorithm} must be a string, a object or a buffer containing the public key.")
        der      == joseToDer(signature, algorithm)
        before   == IF VerifyConverts(type)
                    THEN << "validateSecretOrPublicKey", "joseToDer" >>
                    ELSE << "validateSecretOrPublicKey" >>
        given    == IF VerifyConverts(type) THEN der.value ELSE signature
        verified == NativeVerify(alg, options, input, given)
    IN  IF ~v.ok THEN Thrown(v.err, << "validateSecretOrPublicKey" >>)
        ELSE IF VerifyConverts(type) /\ ~der.ok THEN Thrown(der.err, before)
        ELSE IF ~verified.ok THEN Thrown(verified.err, before \o << "createVerify" >>)
        ELSE Returned(verified.value, before \o << "createVerify" >>, given)

\* the body of the try of verifySignature
verifySignatureTry(algorithm, key, input, signature) ==
    LET type == Slice(algorithm, 0, 2)
        alg  == SHA \o Slice(algorithm, 2, Len(algorithm))
        sig  == FromBase64(signature)
    IN  IF type = << "H", "S" >> THEN VerifyHS(algorithm, alg, key, input, sig)
        ELSE IF type = << "E", "d" >> THEN VerifyEd(algorithm, key, input, sig)
        ELSE VerifyNative(algorithm, type, alg, key, input, sig)

\* catch (e) { throw new TokenError(TokenError.codes.verifyError, ...) }
VerifyCatch(r) ==
    IF r.kind = "throw"
    THEN Thrown(Wrap("verifyError", "Cannot verify the signature.", r.err), r.calls)
    ELSE r

\* function verifySignature(algorithm, key, input, signature)
verifySignature(algorithm, key, input, signature) ==
    VerifyCatch(verifySignatureTry(algorithm, key, input, signature))

(***************************************************************************)
(* The calls the model makes: the algorithms, keys and messages.           *)
(***************************************************************************)
HS256 == << "H", "S", "2", "5", "6" >>

HS384 == << "H", "S", "3", "8", "4" >>

HS512 == << "H", "S", "5", "1", "2" >>

RS256 == << "R", "S", "2", "5", "6" >>

PS256 == << "P", "S", "2", "5", "6" >>

PS384 == << "P", "S", "3", "8", "4" >>

ES256 == << "E", "S", "2", "5", "6" >>

ES384 == << "E", "S", "3", "8", "4" >>

ES512 == << "E", "S", "5", "1", "2" >>

EdDSA == << "E", "d", "D", "S", "A" >>

Algorithms == {HS256, HS384, HS512, RS256, PS256, PS384, ES256, ES384, ES512, EdDSA}

Family(algorithm) == Slice(algorithm, 0, 2)

Asymmetric(algorithm) == Family(algorithm) # << "H", "S" >>

\* the scheme of the keys an algorithm is used with
KeyType(algorithm) ==
    IF Family(algorithm) = << "H", "S" >> THEN "-"
    ELSE IF Family(algorithm) = << "E", "S" >> THEN "ec"
    ELSE IF Family(algorithm) = << "E", "d" >> THEN "ed"
    ELSE "rsa"

Messages == {Msg("m1"), Msg("m2"), NotAString}

\* no key at all: a value that is no string, no buffer and no key object
NoKeys == {Null, Num, Undefined}

\* the materials of the scheme of an algorithm; of the curves, the one of the
\* algorithm
Materials(algorithm, kind) ==
    {m \in DOMAIN Material :
        /\ Material[m].kind = kind
        /\ Material[m].type = KeyType(algorithm)
        /\ m # "garbage"
        /\ Material[m].type = "ec" => Material[m].cb = ParamBytes(algorithm)}

\* a key of a larger curve
OtherCurve(algorithm, kind) ==
    {m \in DOMAIN Material :
        /\ Material[m].kind = kind
        /\ Material[m].type = "ec"
        /\ KeyType(algorithm) = "ec"
        /\ Material[m].cb > ParamBytes(algorithm)}

\* the keys createSignature is called with
SignKeys(algorithm) ==
    IF ~Asymmetric(algorithm)
    THEN {Str("secret-a"), Buf("secret-a"), Str("secret-b")} \cup NoKeys
         \cup {Obj("string", "secret-a", "undefined")}
    ELSE NoKeys
         \cup {Obj("undefined", "-", "undefined"), Obj("number", "-", "string"),
               Str("garbage")}
         \cup {Str(m) : m \in Materials(algorithm, "public")}
         \cup {Str(m) : m \in OtherCurve(algorithm, "private")}
         \cup UNION {{Str(m), Obj("buffer", m, "string"), Obj("string", m, "number")} :
                     m \in Materials(algorithm, "private")}

\* the keys verifySignature is called with
VerifyKeys(algorithm) ==
    IF ~Asymmetric(algorithm)
    THEN {Str("secret-a"), Buf("secret-a"), Str("secret-b")} \cup NoKeys
         \cup {Obj("string", "secret-a", "undefined")}
    ELSE NoKeys
         \cup {Str("garbage")}
         \cup {Str(m) : m \in OtherCurve(algorithm, "public")}
         \cup {Obj("string", m, "undefined") : m \in Materials(algorithm, "public")}
         \cup {Str(m) : m \in Materials(algorithm, "private")}
         \cup UNION {{Str(m), Buf(m)} : m \in Materials(algorithm, "public")}

(***************************************************************************)
(* The state machine.                                                      *)
(***************************************************************************)
NoWire ==
    [origin |-> "none", algorithm |-> << >>, material |-> "-", input |-> NotAString,
     signature |-> << >>]

NoCall ==
    [op |-> "none", algorithm |-> << >>, key |-> Undefined, input |-> NotAString,
     signature |-> << >>, result |-> Thrown(<< >>, << >>)]

Init ==
    /\ oneShot \in BOOLEAN
    /\ wire = NoWire
    /\ last = NoCall

\* A caller signs a message: what createSignature returns is in flight.  On
\* a runtime without the one-shot functions only the EdDSA algorithms are
\* called: no other algorithm reads typeof directSign.
Sign(algorithm, key, input, nonce) ==
    LET r == createSignature(algorithm, key, input, nonce)
    IN  /\ wire.origin = "none"
        /\ last.op = "none"
        /\ oneShot \/ Family(algorithm) = << "E", "d" >>
        /\ last' = [op |-> "sign", algorithm |-> algorithm, key |-> key, input |-> input,
                    signature |-> << >>, result |-> r]
        /\ wire' = IF r.kind = "return"
                   THEN [origin |-> "issued", algorithm |-> algorithm,
                         material |-> IF key.t = "object" THEN key.kv ELSE key.v,
                         input |-> input, signature |-> r.value]
                   ELSE NoWire
        /\ UNCHANGED oneShot

\* the bytes where a bit is flipped: the first, the middle and the last ones
FlipPositions(n) ==
    {i \in 1..n : \/ i <= MaxFlip
                  \/ i > n - MaxFlip
                  \/ (i > n \div 2 /\ i <= (n \div 2) + MaxFlip)}

\* One bit of the signature in flight is flipped before anyone verifies it.
Flip(i, b) ==
    LET bytes == FromBase64(wire.signature)
    IN  /\ wire.origin = "issued"
        /\ last.op = "sign"
            /\ wire' = [wire EXCEPT
                       !.origin = "flipped",
                       !.signature = Replace(ToBase64(
                           SubSeq(bytes, 1, i - 1) \o << FlipBitOf(bytes[i], b) >>
                           \o SubSeq(bytes, i + 1, Len(bytes))))]
        /\ UNCHANGED << oneShot, last >>

\* The signature in flight loses its last n characters.
Cut(n) ==
    /\ wire.origin = "issued"
    /\ last.op = "sign"
    /\ n <= Len(wire.signature)
    /\ wire' = [wire EXCEPT
                   !.origin = "cut",
                   !.signature = SubSeq(wire.signature, 1, Len(wire.signature) - n)]
    /\ UNCHANGED << oneShot, last >>

\* The signature of another implementation arrives: an RSA-PSS signature
\* with a salt of the digest length or of the maximal length, or an EdDSA
\* signature.
Foreign(algorithm, m, input, saltLength, nonce) ==
    /\ wire.origin = "none"
    /\ last.op = "none"
    /\ oneShot \/ Family(algorithm) = << "E", "d" >>
    /\ Family(algorithm) \in {<< "P", "S" >>, << "E", "d" >>}
    /\ m \in Materials(algorithm, "private")
    /\ input.t = "string"
    /\ Family(algorithm) = << "E", "d" >> =>
           saltLength = RSA_PSS_SALTLEN_DIGEST /\ nonce = 0
    /\ wire' = [origin |-> "foreign", algorithm |-> algorithm, material |-> m,
                input |-> input,
                signature |-> Replace(ToBase64(
                    IF Family(algorithm) = << "E", "d" >>
                    THEN EdBytes(Material[m].id, MsgId[input.v])
                    ELSE RsaBytes(Material[m].id, MsgId[input.v],
                                  DigestBytes(SHA \o Slice(algorithm, 2, Len(algorithm))),
                                  RSA_PKCS1_PSS_PADDING,
                                  SignSaltLength(saltLength,
                                      DigestBytes(SHA \o Slice(algorithm, 2, Len(algorithm)))),
                                  nonce)))]
    /\ last' = NoCall
    /\ UNCHANGED oneShot

\* The signature in flight arrives and is verified, once, under the algorithm
\* it came with.  A signature that was tampered with is verified with a key of
\* valid shape and a message: what the call does with another key or with no
\* message does not depend on the signature.
Verify(key, input) ==
    /\ wire.origin # "none"
    /\ last.op # "verify"
    /\ wire.origin \in {"flipped", "cut"} =>
           key.t \in {"string", "buffer"} /\ input.t = "string"
    /\ last' = [op |-> "verify", algorithm |-> wire.algorithm, key |-> key,
                input |-> input, signature |-> wire.signature,
                result |-> verifySignature(wire.algorithm, key, input, wire.signature)]
    /\ UNCHANGED << oneShot, wire >>

Next ==
    \/ \E algorithm \in Algorithms, input \in Messages, nonce \in 0..MaxNonce :
           \E key \in SignKeys(algorithm) : Sign(algorithm, key, input, nonce)
    \/ \E i \in FlipPositions(Len(FromBase64(wire.signature))), b \in 0..7 : Flip(i, b)
    \/ \E n \in 1..MaxCut : Cut(n)
    \/ \E algorithm \in Algorithms, m \in DOMAIN Material, input \in Messages,
          saltLength \in {RSA_PSS_SALTLEN_DIGEST, RSA_PSS_SALTLEN_MAX_SIGN},
          nonce \in 0..MaxNonce :
           Foreign(algorithm, m, input, saltLength, nonce)
    \/ \E key \in VerifyKeys(wire.algorithm), input \in Messages : Verify(key, input)

Spec == Init /\ [][Next]_vars

(***************************************************************************)
(* What the claims speak of.                                               *)
(***************************************************************************)
\* a string or a buffer
StringOrBuffer(key) == key.t \in {"string", "buffer"}

\* a key createSignature can use for an asymmetric algorithm: a string, a
\* buffer, or an object with a key and, if any, a passphrase of these types
PrivateKeyShape(key) ==
    \/ StringOrBuffer(key)
    \/ /\ key.t = "object"
       /\ key.kt \in {"string", "buffer"}
       /\ key.pt \in {"undefined", "string", "buffer"}

\* the key verifies what the signer in wire.material signs: the same secret,
\* or a key of the same pair
MatchesSigner(key) ==
    /\ StringOrBuffer(key)
    /\ Material[key.v].id = Material[wire.material].id

\* the key is one the verifying primitive of the algorithm can use
UsableVerifyKey(algorithm, key) ==
    /\ StringOrBuffer(key)
    /\ Asymmetric(algorithm) =>
           /\ Material[key.v].kind \in {"private", "public"}
           /\ Material[key.v].type = KeyType(algorithm)

\* the bytes of a signature of the algorithm
SignatureBytes(algorithm) ==
    IF Family(algorithm) = << "H", "S" >>
    THEN DigestBytes(SHA \o Slice(algorithm, 2, Len(algorithm)))
    ELSE IF Family(algorithm) = << "E", "S" >> THEN 2 * ParamBytes(algorithm)
    ELSE IF Family(algorithm) = << "E", "d" >> THEN 64
    ELSE RsaModulusBytes

CryptoPrimitives == {"createHmac", "createSign", "createVerify", "directSign", "directVerify"}

Validators == {"validateSecretOrPublicKey", "validatePrivateKey"}

Called(name) == \E i \in 1..Len(last.result.calls) : last.result.calls[i] = name

\* name1 is called, and before name2 if name2 is called at all
CalledBefore(name1, name2) ==
    \E i \in 1..Len(last.result.calls) :
        /\ last.result.calls[i] = name1
        /\ \A j \in 1..Len(last.result.calls) : last.result.calls[j] = name2 => i < j

SignedOk == last.op = "sign" /\ last.result.kind = "return"

\* C1: a signature createSignature returned, verified under the same
\* algorithm with the same message and the same secret or a key of the same
\* pair, verifies: verifySignature returns true.
C1_RoundTrip ==
    (/\ last.op = "verify"
     /\ wire.origin = "issued"
     /\ last.input = wire.input
     /\ MatchesSigner(last.key))
    => (last.result.kind = "return" /\ last.result.value = TRUE)

C1_Witness ==
    /\ last.op = "verify"
    /\ wire.origin = "issued"
    /\ last.algorithm = PS384
    /\ last.input = wire.input
    /\ MatchesSigner(last.key)
    /\ last.result.kind = "return"
    /\ last.result.value = TRUE

\* C2: createSignature returns a complete signature in wire form, or throws
\* an error of code signError that carries the error that caused it.
C2_SignErrorOnly ==
    last.op = "sign" =>
        \/ /\ last.result.kind = "return"
           /\ Len(FromBase64(last.result.value)) = SignatureBytes(last.algorithm)
        \/ /\ last.result.kind = "throw"
           /\ Len(last.result.err) >= 2
           /\ last.result.err[1].code = "signError"
           /\ last.result.err[1].message = "Cannot create the signature."

\* the conversion of the DER signature failed after the native signer ran
C2_Witness ==
    /\ last.op = "sign"
    /\ last.result.kind = "throw"
    /\ last.result.calls = << "validatePrivateKey", "createSign", "derToJose" >>
    /\ last.result.err[1].code = "signError"
    /\ last.result.err[2].code = "Error"

\* C3: with a key the primitive can use and a message, a signature that was
\* valid and had one bit flipped, or for HMAC one whose decoded length is
\* not that of the MAC, makes verifySignature return false; it does not throw.
C3_MismatchIsFalse ==
    (/\ last.op = "verify"
     /\ UsableVerifyKey(last.algorithm, last.key)
     /\ last.input.t = "string"
     /\ \/ wire.origin = "flipped"
        \/ /\ Family(last.algorithm) = << "H", "S" >>
           /\ Len(FromBase64(last.signature)) # SignatureBytes(last.algorithm))
    => (last.result.kind = "return" /\ last.result.value = FALSE)

C3_Witness ==
    /\ last.op = "verify"
    /\ wire.origin = "cut"
    /\ Family(last.algorithm) = << "H", "S" >>
    /\ MatchesSigner(last.key)
    /\ last.input = wire.input
    /\ Len(FromBase64(last.signature)) < SignatureBytes(last.algorithm)
    /\ last.result.kind = "return"
    /\ last.result.value = FALSE

\* C4: when the MAC construction fails in verifySignature, the error is
\* thrown as verifyError and nothing is returned (the claim as stated; the
\* HS branch returns false instead).
C4_PrimitiveFailureThrows ==
    (/\ last.op = "verify"
     /\ Family(last.algorithm) = << "H", "S" >>
     /\ StringOrBuffer(last.key)
     /\ ~createHmac(SHA \o Slice(last.algorithm, 2, Len(last.algorithm)),
                    last.key, last.input).ok)
    => (last.result.kind = "throw" /\ last.result.err[1].code = "verifyError")

\* C5, as stated: an RSA-PSS signature made for the message by the key pair
\* is accepted whatever the length of its salt.
C5_AnySaltAccepted ==
    (/\ last.op = "verify"
     /\ Family(last.algorithm) = << "P", "S" >>
     /\ wire.origin \in {"issued", "foreign"}
     /\ last.input = wire.input
     /\ MatchesSigner(last.key))
    => (last.result.kind = "return" /\ last.result.value = TRUE)

\* C5, amended: an RSA-PSS signature made for the message by the key pair is
\* accepted exactly when its salt has the length of the digest, the length
\* createSignature signs with.
C5_DigestSaltAccepted ==
    (/\ last.op = "verify"
     /\ Family(last.algorithm) = << "P", "S" >>
     /\ wire.origin \in {"issued", "foreign"}
     /\ last.input = wire.input
     /\ MatchesSigner(last.key))
    => /\ last.result.kind = "return"
       /\ last.result.value =
              (last.result.native[6] =
                   DigestBytes(SHA \o Slice(last.algorithm, 2, Len(last.algorithm))))
       /\ wire.origin = "issued" => last.result.value = TRUE

\* a signature with a salt of the maximal length is refused
C5_Witness ==
    /\ last.op = "verify"
    /\ last.algorithm = PS256
    /\ wire.origin = "foreign"
    /\ last.input = wire.input
    /\ MatchesSigner(last.key)
    /\ last.result.kind = "return"
    /\ last.result.native[6] = RsaModulusBytes - 32 - 2
    /\ last.result.value = FALSE

InvalidKeyMessage(key) ==
    IF key.t # "object"
    THEN "The key for algorithm ${algorithm} must be a string, a object or a buffer containing the private key."
    ELSE IF key.kt \notin {"string", "buffer"}
    THEN "The key object for algorithm ${algorithm} must have the key property as string or buffer containing the private key."
    ELSE "The key object for algorithm ${algorithm} must have the passphrase property as string or buffer containing the private key."

C7_UnsupportedAlgorithmKind ==
    (/\ last.op \in {"sign", "verify"}
     /\ Family(last.algorithm) = << "E", "d" >>
     /\ ~oneShot)
    => /\ last.result.kind = "throw"
       /\ last.result.err[1].code \notin {"signError", "verifyError"}
       /\ last.result.calls = << >>

\* C7, amended: an EdDSA algorithm on a runtime without the one-shot
\* functions makes createSignature throw signError and verifySignature throw
\* verifyError, each carrying the signError 'EdDSA algorithms are not
\* supported by your Node.js version.', before any key validation.
C7_UnsupportedIsSignOrVerifyError ==
    (/\ last.op \in {"sign", "verify"}
     /\ Family(last.algorithm) = << "E", "d" >>
     /\ ~oneShot)
    => /\ last.result.kind = "throw"
       /\ last.result.err[1].code = (IF last.op = "sign" THEN "signError" ELSE "verifyError")
       /\ Tail(last.result.err) =
              Err("signError", "EdDSA algorithms are not supported by your Node.js version.")
       /\ last.result.calls = << >>

\* createSignature with no key at all, where a validation would have thrown
C7_Witness ==
    /\ last.op = "sign"
    /\ last.algorithm = EdDSA
    /\ ~oneShot
    /\ last.key = Num
    /\ last.result.kind = "throw"
    /\ last.result.err[2].code = "signError"
    /\ last.result.calls = << >>

\* the shape of key the operation validates for
ValidKeyShape ==
    IF last.op = "sign" /\ Asymmetric(last.algorithm)
    THEN PrivateKeyShape(last.key)
    ELSE StringOrBuffer(last.key)

\* C8: in every call a key validator is called before the first primitive,
\* and no primitive is called with a key of invalid shape (the claim as
\* stated; the Ed branch of verifySignature validates nothing).
C8_ValidationFirst ==
    last.op \in {"sign", "verify"} =>
        /\ \A i \in 1..Len(last.result.calls) :
               last.result.calls[i] \in CryptoPrimitives =>
                   \E j \in 1..(i - 1) : last.result.calls[j] \in Validators
        /\ ~ValidKeyShape =>
               \A i \in 1..Len(last.result.calls) :
                   last.result.calls[i] \notin CryptoPrimitives

\* standard base64 made safe for URLs: no '=', '-' for '+' and '_' for '/'
UrlSafe(b64) ==
    LET kept == SelectSeq(b64, LAMBDA c : c # "=")
    IN  AsSeq([i \in 1..Len(kept) |->
                  IF kept[i] = "+" THEN "-" ELSE IF kept[i] = "/" THEN "_" ELSE kept[i]])

\* r || s of a DER signature, each in paramBytes bytes
FixedWidth(der, paramBytes) ==
    LeftPad(StripZeros(DerDecode(der).r), paramBytes)
    \o LeftPad(StripZeros(DerDecode(der).s), paramBytes)

\* the bytes of the signature the latest createSignature made
WireBytes ==
    IF Family(last.algorithm) = << "E", "S" >>
    THEN FixedWidth(last.result.native, ParamBytes(last.algorithm))
    ELSE last.result.native

\* C9: what createSignature returns is the standard base64 of the signature
\* bytes without '=' and with '-' for '+' and '_' for '/'; none of '=', '+'
\* and '/' is in it, and read as verifySignature reads it, it gives the
\* signature bytes.
C9_UrlSafeBase64 ==
    SignedOk =>
        /\ last.result.value = UrlSafe(ToBase64(WireBytes))
        /\ \A i \in 1..Len(last.result.value) : last.result.value[i] \notin {"=", "+", "/"}
        /\ FromBase64(last.result.value) = WireBytes

\* a MAC whose base64 has '+', '/' and two '='
C9_Witness ==
    /\ SignedOk
    /\ last.algorithm = HS512
    /\ SubSeq(ToBase64(last.result.native), 1, 2) = << "+", "/" >>
    /\ SubSeq(ToBase64(last.result.native), 87, 88) = << "=", "=" >>
    /\ Len(last.result.value) = 86

\* C10: createSignature converts the DER signature to r || s, after the
\* native signer, exactly for the ES algorithms and verifySignature converts
\* r || s to DER, before the native verifier, exactly for them; the bytes of
\* the other algorithms are those of the primitive; r || s converted to DER
\* and back is r || s.
C10_ConvertsOnlyECDSA ==
    /\ SignedOk =>
           IF Family(last.algorithm) = << "E", "S" >>
           THEN /\ CalledBefore("createSign", "derToJose")
                /\ Called("derToJose")
                /\ FromBase64(last.result.value)
                       = FixedWidth(last.result.native, ParamBytes(last.algorithm))
                /\ FromBase64(derToJose(ToBase64(
                       joseToDer(FromBase64(last.result.value), last.algorithm).value),
                       last.algorithm).value) = FromBase64(last.result.value)
           ELSE /\ ~Called("derToJose")
                /\ FromBase64(last.result.value) = last.result.native
    /\ (last.op = "verify" /\ last.result.kind = "return") =>
           IF Family(last.algorithm) = << "E", "S" >>
           THEN /\ CalledBefore("joseToDer", "createVerify")
                /\ Called("createVerify")
                /\ FromBase64(derToJose(ToBase64(last.result.native), last.algorithm).value)
                       = FromBase64(last.signature)
           ELSE /\ ~Called("joseToDer")
                /\ last.result.native = FromBase64(last.signature)

\* an ES512 signature whose DER needs the long form of the length
C10_Witness ==
    /\ SignedOk
    /\ last.algorithm = ES512
    /\ last.result.native[2] = 129
    /\ Called("derToJose")
    /\ Len(FromBase64(last.result.value)) = 132

=============================================================================
